---- MODULE Spec2Model ----
(***************************************************************************)
(* Model of scripts/backfill_archives.py: the daily selection of revisions *)
(* (choose_daily), the statistics reducer (compute_statistics) and the     *)
(* archive materializer (backfill) driven by main(), run as a process that *)
(* can be started again and again over one archive directory.              *)
(***************************************************************************)
EXTENDS Integers, Sequences, FiniteSets, TLC

\* ------------------------------------------------------------------ bounds
MaxCommits == 2         \* longest history of the tracked file the script is run on
NumDays == 2            \* distinct calendar days a commit date can take
MaxLog == 4             \* longest git log given to choose_daily on its own
MaxRuns == 2            \* how many times the script is run over the archive
MaxRecords == 2         \* longest record list given to compute_statistics
MaxCount == 1           \* largest download / like count of a record
MaxTags == 2            \* longest language-tag list of a record

Days == 1..NumDays
Shas == 1..MaxCommits

\* ------------------------------------------------------------- variables
VARIABLES
  inRepo,      \* os.path.isdir('.git')
  commits,     \* output of get_commits(): <<sha, date>> pairs, newest first
  content,     \* sha -> what `git show sha:DATA_FILE` yields ("unread" until first read)
  dirExists,   \* ARCHIVE_DIR exists
  files,       \* path -> bytes of the archive file, Absent when there is none
  pc,          \* position of the running process
  dry_run,     \* args.dry_run
  strategy,    \* args.strategy
  mapping,     \* OrderedDict of choose_daily: sequence of <<date, sha>>
  idx,         \* position of the for loop of backfill in mapping
  need,        \* need_ds, need_st of the day being processed
  status,      \* status dict of the day being processed
  results,     \* results dict of backfill
  exitCode,    \* exit code of the process, "none" while it runs
  startFiles,  \* history: files when the current run started
  startDir,    \* history: dirExists when the current run started
  writes,      \* history: paths opened for writing by the current run
  fetched,     \* history: revisions fetched with git show by the current run
  prev,        \* history: mode, selection, results, exit code of the previous run
  sameStart,   \* history: the previous run started from the same archive state
  runs,        \* history: how many times the script was started
  datasets,    \* argument of compute_statistics
  stats,       \* value returned by compute_statistics
  statPc       \* "call" before compute_statistics returns, "return" after

vars == <<inRepo, commits, content, dirExists, files, pc, dry_run, strategy,
          mapping, idx, need, status, results, exitCode, startFiles, startDir,
          writes, fetched, prev, sameStart, runs, datasets, stats, statPc>>

runVars == <<inRepo, commits, content, dirExists, files, pc, dry_run, strategy,
             mapping, idx, need, status, results, exitCode, startFiles,
             startDir, writes, fetched, prev, sameStart, runs>>

statVars == <<datasets, stats, statPc>>

\* ------------------------------------------------------------ choose_daily
Reverse(s) == [i \in 1..Len(s) |-> s[Len(s) + 1 - i]]

HasDate(m, date) == \E i \in 1..Len(m) : m[i][1] = date

SetDate(m, date, sha) ==
  [i \in 1..Len(m) |-> IF m[i][1] = date THEN <<date, sha>> ELSE m[i]]

\* mutant of ChooseStep: the test of line 37 made against "first"
ChooseStepSwapped(m, sha, date, strat) ==
  IF ~HasDate(m, date) THEN Append(m, <<date, sha>>)
  ELSE IF strat = "first" THEN SetDate(m, date, sha)
  ELSE m

\* one iteration of the for loop over rev
ChooseStep(m, sha, date, strat) ==
  IF ~HasDate(m, date) THEN Append(m, <<date, sha>>)
  ELSE IF strat = "last" THEN SetDate(m, date, sha)
  ELSE m

RECURSIVE ChooseLoop(_, _, _)
ChooseLoop(rev, m, strat) ==
  IF rev = <<>> THEN m
  ELSE ChooseLoop(Tail(rev), ChooseStep(m, Head(rev)[1], Head(rev)[2], strat), strat)

Strategies == {"last", "first"}

\* lines 29-30: any other strategy raises ValueError
ValidStrategy(strat) == strat \in Strategies

\* lines 31-39, for a valid strategy
choose_daily(cs, strat) == ChooseLoop(Reverse(cs), <<>>, strat)


\* ------------------------------------------------------ compute_statistics
\* A record d of the "datasets" list. A field holds <<>> when the key is
\* missing from d and <<v>> when d[key] is v.
Tags == {"ja", "en"}
TagLists == UNION {[1..n -> Tags] : n \in 0..MaxTags}
Records == [downloads : {<<>>} \cup {<<c>> : c \in 0..MaxCount},
            likes : {<<>>} \cup {<<c>> : c \in 0..MaxCount},
            languages : {<<>>} \cup {<<l>> : l \in TagLists}]

\* d.get(key, default)
Get(field, default) == IF field = <<>> THEN default ELSE field[1]

RECURSIVE SumDownloads(_)
SumDownloads(ds) ==
  IF ds = <<>> THEN 0 ELSE Get(Head(ds).downloads, 0) + SumDownloads(Tail(ds))

RECURSIVE SumLikes(_)
SumLikes(ds) ==
  IF ds = <<>> THEN 0 ELSE Get(Head(ds).likes, 0) + SumLikes(Tail(ds))

\* len(d.get("languages", [])) > 1
IsMultilingual(d) == Len(Get(d.languages, <<>>)) > 1

RECURSIVE CountMultilingual(_)
CountMultilingual(ds) ==
  IF ds = <<>> THEN 0
  ELSE (IF IsMultilingual(Head(ds)) THEN 1 ELSE 0) + CountMultilingual(Tail(ds))

compute_statistics(ds) ==
  [total_datasets |-> Len(ds),
   total_downloads |-> SumDownloads(ds),
   total_likes |-> SumLikes(ds),
   multilingual_count |-> CountMultilingual(ds)]

NoStats == [total_datasets |-> 0, total_downloads |-> 0, total_likes |-> 0,
            multilingual_count |-> 0]

\* -------------------------------------------------------------- filesystem
Artifacts == {"dataset", "stats"}
Paths == [kind : Artifacts, day : Days]

\* ds_path / st_path: ARCHIVE_DIR joined with the file name made from the date
ds_path(date) == [kind |-> "dataset", day |-> date]
st_path(date) == [kind |-> "stats", day |-> date]

\* the bytes of a file: what was dumped, and from which day and revision
Bytes(what, date, sha) == [dump |-> what, last_updated |-> date, of |-> sha]

Absent == Bytes("absent", 0, 0)     \* no such file
Old == Bytes("old", 0, 0)           \* complete bytes written before the first run
Partial == Bytes("partial", 0, 0)   \* opened with 'w', json.dump did not finish

\* json.dump(data, f): the document parsed from the revision, re-serialised
DatasetDoc(sha) == Bytes("data", 0, sha)
\* json.dump(doc, f) with doc = {"last_updated": date T00:00:00, "statistics": stats}
StatsDoc(date, sha) == Bytes("doc", date, sha)

exists(path) == files[path] # Absent

\* ------------------------------------------------------------ git show
\* What `git show sha:DATA_FILE` followed by load_dataset(raw) meets:
\*   ok           a JSON object with a "datasets" list of records
\*   invalid_json json.loads raises JSONDecodeError (a ValueError)
\*   no_key       a JSON object (or array) without "datasets": ValueError
\*   not_iterable a JSON number, true, false or null: `"datasets" not in data`
\*                raises TypeError, which `except ValueError` does not catch
\*   no_get       a JSON array or string containing "datasets": load_dataset
\*                returns it and data.get raises AttributeError
\*   git_failed   git exits non-zero (CalledProcessError): run_git calls sys.exit(1)
Kinds == {"ok", "invalid_json", "no_key", "not_iterable", "no_get", "git_failed"}
Unread == "unread"

\* run_git(["show", ...]): "exit" when git reports failure, else the raw text
run_git(k) == IF k = "git_failed" THEN "exit" ELSE "raw"

\* load_dataset(raw): the exception it raises, or "data"
load_dataset(k) ==
  CASE k = "invalid_json" -> "ValueError"
    [] k = "no_key"       -> "ValueError"
    [] k = "not_iterable" -> "TypeError"
    [] OTHER              -> "data"

\* str(e) of the ValueError caught at line 79
ErrorText(k) == IF k = "no_key" THEN "Missing 'datasets' key" ELSE "JSONDecodeError"

\* data.get("datasets", []) at line 83
GetDatasets(k) == IF k = "no_get" THEN "AttributeError" ELSE "list"

\* the outcome of lines 76-83 for content kind k
Fetch(k) ==
  IF run_git(k) = "exit" THEN "exit"
  ELSE IF load_dataset(k) = "ValueError" THEN "error"
  ELSE IF load_dataset(k) # "data" THEN "crash"
  ELSE IF GetDatasets(k) # "list" THEN "crash"
  ELSE "ok"

\* ------------------------------------------------------------ status dict
NewStatus(date, sha) ==
  [date |-> date, commit |-> sha, dataset |-> "skip", stats |-> "skip",
   note |-> "none", error |-> "none"]

NoStatus == [date |-> 0, commit |-> 0, dataset |-> "skip", stats |-> "skip",
             note |-> "none", error |-> "none"]

NoResults == [d \in {} |-> NoStatus]

Put(res, date, st) == [d \in (DOMAIN res) \cup {date} |-> IF d = date THEN st ELSE res[d]]

\* mutant of need_ds: the existence check is dropped
need_ds_always(date) == TRUE

\* mutant of need_st: the existence check is made on ds_path
need_st_copied(date) == ~exists(ds_path(date))

need_ds(date) == ~exists(ds_path(date))
need_st(date) == ~exists(st_path(date))

\* mutant of DryStatus: need_ds and need_st taken for one another
DryStatusSwapped(st, nds, nst) ==
  [st EXCEPT !.dataset = IF nst THEN "would_create" ELSE "exists",
             !.stats = IF nds THEN "would_create" ELSE "exists"]

\* lines 72-73
DryStatus(st, nds, nst) ==
  [st EXCEPT !.dataset = IF nds THEN "would_create" ELSE "exists",
             !.stats = IF nst THEN "would_create" ELSE "exists"]

NoNeed == [ds |-> FALSE, st |-> FALSE]

Running == pc \in {"day", "ds", "ds_open", "st", "st_open"}

CurDate == mapping[idx][1]
CurSha == mapping[idx][2]

\* ------------------------------------------------------------------ Init
\* no process has run yet
NotStarted ==
  /\ pc = "idle"
  /\ dry_run = FALSE
  /\ strategy = "last"
  /\ mapping = <<>>
  /\ idx = 0
  /\ need = NoNeed
  /\ status = NoStatus
  /\ results = NoResults
  /\ exitCode = "none"
  /\ startFiles = files
  /\ startDir = dirExists
  /\ writes = {}
  /\ fetched = {}
  /\ prev = [ran |-> FALSE, dry |-> FALSE, mapping |-> <<>>, results |-> NoResults,
             exitCode |-> "none"]
  /\ sameStart = FALSE
  /\ runs = 0

\* a working copy or not, any history of the tracked file, any archive
\* directory holding any of the artifacts
Init ==
  /\ inRepo \in BOOLEAN
  /\ \E n \in 0..MaxCommits : \E dates \in [1..n -> Days] :
       commits = [i \in 1..n |-> <<i, dates[i]>>]
  /\ content = [s \in Shas |-> Unread]
  /\ dirExists \in BOOLEAN
  /\ files \in [Paths -> {Absent, Old}]
  /\ (~dirExists => \A p \in Paths : files[p] = Absent)
  /\ NotStarted
  /\ datasets = <<>>
  /\ stats = NoStats
  /\ statPc = "call"

\* ------------------------------------------------------------------ main
\* main() up to the first iteration of the loop of backfill: the checks of
\* lines 125-131, choose_daily, and os.makedirs(ARCHIVE_DIR, exist_ok=True)
Main ==
  /\ pc \in {"idle", "exit"}
  /\ runs' = runs + 1
  /\ \E d \in BOOLEAN, s \in Strategies :
       /\ dry_run' = d
       /\ strategy' = s
       /\ IF ~inRepo
            THEN /\ pc' = "exit" /\ exitCode' = "1"
                 /\ mapping' = <<>> /\ UNCHANGED dirExists
          ELSE IF commits = <<>>
            THEN /\ pc' = "exit" /\ exitCode' = "0"
                 /\ mapping' = <<>> /\ UNCHANGED dirExists
          ELSE /\ pc' = "day" /\ exitCode' = "none"
               /\ mapping' = choose_daily(commits, s)
               /\ dirExists' = TRUE
  /\ idx' = 1
  /\ need' = NoNeed
  /\ status' = NoStatus
  /\ results' = NoResults
  /\ startFiles' = files
  /\ startDir' = dirExists
  /\ writes' = {}
  /\ fetched' = {}
  /\ prev' = [ran |-> pc = "exit", dry |-> dry_run, mapping |-> mapping,
              results |-> results, exitCode |-> exitCode]
  /\ sameStart' = (pc = "exit" /\ startFiles = files)
  /\ UNCHANGED <<inRepo, commits, content, files, statVars>>

\* lines 64-70: both artifacts exist
DayPresent ==
  /\ pc = "day" /\ idx <= Len(mapping)
  /\ ~(need_ds(CurDate) \/ need_st(CurDate))
  /\ results' = Put(results, CurDate, [NewStatus(CurDate, CurSha) EXCEPT !.note = "present"])
  /\ idx' = idx + 1
  /\ UNCHANGED <<inRepo, commits, content, dirExists, files, pc, dry_run, strategy,
                 mapping, need, status, exitCode, startFiles, startDir, writes,
                 fetched, prev, sameStart, runs, statVars>>

\* mutant of DayDryRun: the dry-run test made before the test of line 67
DayDryRunFirst ==
  /\ pc = "day" /\ idx <= Len(mapping)
  /\ dry_run
  /\ results' = Put(results, CurDate,
                    DryStatus(NewStatus(CurDate, CurSha), need_ds(CurDate), need_st(CurDate)))
  /\ idx' = idx + 1
  /\ UNCHANGED <<inRepo, commits, content, dirExists, files, pc, dry_run, strategy,
                 mapping, need, status, exitCode, startFiles, startDir, writes,
                 fetched, prev, sameStart, runs, statVars>>

\* lines 71-75: dry run of a day with a missing artifact
DayDryRun ==
  /\ pc = "day" /\ idx <= Len(mapping)
  /\ need_ds(CurDate) \/ need_st(CurDate)
  /\ dry_run
  /\ results' = Put(results, CurDate,
                    DryStatus(NewStatus(CurDate, CurSha), need_ds(CurDate), need_st(CurDate)))
  /\ idx' = idx + 1
  /\ UNCHANGED <<inRepo, commits, content, dirExists, files, pc, dry_run, strategy,
                 mapping, need, status, exitCode, startFiles, startDir, writes,
                 fetched, prev, sameStart, runs, statVars>>

\* lines 76-83: fetch and parse the revision of a day with a missing artifact
DayFetch ==
  /\ pc = "day" /\ idx <= Len(mapping)
  /\ need_ds(CurDate) \/ need_st(CurDate)
  /\ ~dry_run
  /\ \E k \in (IF content[CurSha] = Unread THEN Kinds ELSE {content[CurSha]}) :
       /\ content' = [content EXCEPT ![CurSha] = k]
       /\ fetched' = fetched \cup {CurSha}
       /\ CASE Fetch(k) = "exit" ->
                 /\ pc' = "exit" /\ exitCode' = "1"
                 /\ UNCHANGED <<results, idx, need, status>>
            [] Fetch(k) = "crash" ->
                 /\ pc' = "exit" /\ exitCode' = "1"
                 /\ UNCHANGED <<results, idx, need, status>>
            [] Fetch(k) = "error" ->
                 /\ results' = Put(results, CurDate,
                                   [NewStatus(CurDate, CurSha) EXCEPT !.error = ErrorText(k)])
                 /\ idx' = idx + 1
                 /\ UNCHANGED <<pc, exitCode, need, status>>
            [] OTHER ->
                 /\ pc' = "ds"
                 /\ need' = [ds |-> need_ds(CurDate), st |-> need_st(CurDate)]
                 /\ status' = NewStatus(CurDate, CurSha)
                 /\ UNCHANGED <<results, idx, exitCode>>
  /\ UNCHANGED <<inRepo, commits, dirExists, files, dry_run, strategy, mapping,
                 startFiles, startDir, writes, prev, sameStart, runs, statVars>>

\* lines 84-89: open the content artifact for writing, or report it as existing
WriteDataset ==
  /\ pc = "ds"
  /\ IF need.ds
       THEN /\ files' = [files EXCEPT ![ds_path(CurDate)] = Partial]
            /\ writes' = writes \cup {ds_path(CurDate)}
            /\ pc' = "ds_open"
            /\ UNCHANGED status
       ELSE /\ status' = [status EXCEPT !.dataset = "exists"]
            /\ pc' = "st"
            /\ UNCHANGED <<files, writes>>
  /\ UNCHANGED <<inRepo, commits, content, dirExists, dry_run, strategy, mapping,
                 idx, need, results, exitCode, startFiles, startDir, fetched,
                 prev, sameStart, runs, statVars>>

\* lines 86-87: json.dump finishes and the file is closed
DumpDataset ==
  /\ pc = "ds_open"
  /\ files' = [files EXCEPT ![ds_path(CurDate)] = DatasetDoc(CurSha)]
  /\ status' = [status EXCEPT !.dataset = "created"]
  /\ pc' = "st"
  /\ UNCHANGED <<inRepo, commits, content, dirExists, dry_run, strategy, mapping,
                 idx, need, results, exitCode, startFiles, startDir, writes,
                 fetched, prev, sameStart, runs, statVars>>

\* lines 90-98: open the stats artifact for writing, or report it as existing
WriteStats ==
  /\ pc = "st"
  /\ IF need.st
       THEN /\ files' = [files EXCEPT ![st_path(CurDate)] = Partial]
            /\ writes' = writes \cup {st_path(CurDate)}
            /\ pc' = "st_open"
            /\ UNCHANGED <<status, results, idx>>
       ELSE /\ status' = [status EXCEPT !.stats = "exists"]
            /\ results' = Put(results, CurDate, status')
            /\ idx' = idx + 1
            /\ pc' = "day"
            /\ UNCHANGED <<files, writes>>
  /\ UNCHANGED <<inRepo, commits, content, dirExists, dry_run, strategy, mapping,
                 need, exitCode, startFiles, startDir, fetched, prev, sameStart,
                 runs, statVars>>

\* lines 94-98: json.dump finishes, the file is closed, the status is recorded
DumpStats ==
  /\ pc = "st_open"
  /\ files' = [files EXCEPT ![st_path(CurDate)] = StatsDoc(CurDate, CurSha)]
  /\ status' = [status EXCEPT !.stats = "created"]
  /\ results' = Put(results, CurDate, status')
  /\ idx' = idx + 1
  /\ pc' = "day"
  /\ UNCHANGED <<inRepo, commits, content, dirExists, dry_run, strategy, mapping,
                 need, exitCode, startFiles, startDir, writes, fetched, prev,
                 sameStart, runs, statVars>>

\* line 99 and lines 135-137: the loop is over, summary prints, exit code 0
Finish ==
  /\ pc = "day" /\ idx > Len(mapping)
  /\ pc' = "exit"
  /\ exitCode' = "0"
  /\ UNCHANGED <<inRepo, commits, content, dirExists, files, dry_run, strategy,
                 mapping, idx, need, status, results, startFiles, startDir,
                 writes, fetched, prev, sameStart, runs, statVars>>

\* the process is terminated (the only cancellation there is) wherever it stands
Kill ==
  /\ Running
  /\ pc' = "exit"
  /\ exitCode' = "killed"
  /\ UNCHANGED <<inRepo, commits, content, dirExists, files, dry_run, strategy,
                 mapping, idx, need, status, results, startFiles, startDir,
                 writes, fetched, prev, sameStart, runs, statVars>>

\* the script is started for the first time or once more
Start == runs < MaxRuns /\ Main

Next ==
  \/ Start
  \/ DayPresent
  \/ DayDryRun
  \/ DayFetch
  \/ WriteDataset
  \/ DumpDataset
  \/ WriteStats
  \/ DumpStats
  \/ Finish
  \/ Kill

Spec == Init /\ [][Next]_vars

\* ------------------------------------------- compute_statistics on its own
InitStats ==
  /\ inRepo = TRUE
  /\ commits = <<>>
  /\ content = [s \in Shas |-> Unread]
  /\ dirExists = FALSE
  /\ files = [p \in Paths |-> Absent]
  /\ NotStarted
  /\ datasets \in UNION {[1..n -> Records] : n \in 0..MaxRecords}
  /\ stats = NoStats
  /\ statPc = "call"

Reduce ==
  /\ statPc = "call"
  /\ stats' = compute_statistics(datasets)
  /\ statPc' = "return"
  /\ UNCHANGED <<datasets, runVars>>

NextStats == Reduce

SpecStats == InitStats /\ [][NextStats]_vars


\* ------------------------------------------------- one run of the script
\* the first run only, from any initial state
FirstRun == runs = 0 /\ Main

NextOnce ==
  \/ FirstRun
  \/ DayPresent
  \/ DayDryRun
  \/ DayFetch
  \/ WriteDataset
  \/ DumpDataset
  \/ WriteStats
  \/ DumpStats
  \/ Finish
  \/ Kill

SpecOnce == Init /\ [][NextOnce]_vars

\* ------------------------------------------- a run and the run after it
\* the script is started again once the first process is gone
SecondRun == runs = 1 /\ Main

NextTwice ==
  \/ FirstRun
  \/ SecondRun
  \/ DayPresent
  \/ DayDryRun
  \/ DayFetch
  \/ WriteDataset
  \/ DumpDataset
  \/ WriteStats
  \/ DumpStats
  \/ Finish
  \/ Kill

SpecTwice == Init /\ [][NextTwice]_vars

\* ----------------------------------------------- choose_daily on its own
\* any git log of the tracked file, newest first, dates in any order
InitSelect ==
  /\ inRepo = TRUE
  /\ \E n \in 0..MaxLog : \E dates \in [1..n -> Days] :
       commits = [i \in 1..n |-> <<i, dates[i]>>]
  /\ content = [s \in Shas |-> Unread]
  /\ dirExists = FALSE
  /\ files = [p \in Paths |-> Absent]
  /\ NotStarted
  /\ datasets = <<>>
  /\ stats = NoStats
  /\ statPc = "call"

\* mapping = choose_daily(commits, strategy=args.strategy), any strategy string
Select ==
  /\ pc = "idle"
  /\ \E s \in Strategies \cup {"newest"} :
       /\ strategy' = s
       /\ IF ValidStrategy(s)
            THEN mapping' = choose_daily(commits, s) /\ pc' = "selected"
            ELSE UNCHANGED mapping /\ pc' = "raised"
  /\ UNCHANGED <<inRepo, commits, content, dirExists, files, dry_run, idx, need,
                 status, results, exitCode, startFiles, startDir, writes,
                 fetched, prev, sameStart, runs, statVars>>

NextSelect == Select

SpecSelect == InitSelect /\ [][NextSelect]_vars

\* ======================================================== properties
Completed == pc = "exit" /\ exitCode = "0"

DaysOf(m) == {m[i][1] : i \in DOMAIN m}
CommitDays == {commits[i][2] : i \in DOMAIN commits}
\* positions, in the newest-first list, of the revisions of day d
PosOfDay(d) == {i \in DOMAIN commits : commits[i][2] = d}
Newest(d) == CHOOSE i \in PosOfDay(d) : \A j \in PosOfDay(d) : i <= j
Oldest(d) == CHOOSE i \in PosOfDay(d) : \A j \in PosOfDay(d) : i >= j
Selected == pc = "selected"

\* C2: the mapping of choose_daily has exactly the distinct days of the
\* revision list as its keys, each once, and maps a day to the oldest revision
\* of that day under "first" and to the newest one under "last".
C2_TieBreak ==
  Selected =>
    /\ DaysOf(mapping) = CommitDays
    /\ Len(mapping) = Cardinality(CommitDays)
    /\ \A i \in DOMAIN mapping :
         mapping[i][2] = commits[IF strategy = "first" THEN Oldest(mapping[i][1])
                                 ELSE Newest(mapping[i][1])][1]

\* oldest first [(3, day 1), (2, day 1), (1, day 2)] under "first":
\* {day 1: 3, day 2: 1}
C2_Witness ==
  /\ Selected
  /\ strategy = "first"
  /\ commits = <<<<1, 2>>, <<2, 1>>, <<3, 1>>>>
  /\ mapping = <<<<1, 3>>, <<2, 1>>>>

StatusOf(res, d, a) == IF a = "dataset" THEN res[d].dataset ELSE res[d].stats
PathOf(d, a) == IF a = "dataset" THEN ds_path(d) ELSE st_path(d)
\* the (day, artifact) pairs a run reports with status st
Reported(res, st) ==
  {da \in (DOMAIN res) \X Artifacts : StatusOf(res, da[1], da[2]) = st}
Present(res) == {d \in DOMAIN res : res[d].note = "present"}
NoError(res) == \A d \in DOMAIN res : res[d].error = "none"

SecondNormalRun ==
  /\ Completed /\ ~dry_run
  /\ prev.ran /\ prev.exitCode = "0" /\ ~prev.dry
  /\ prev.mapping = mapping

\* C1: a normal run that follows a completed normal run with the same
\* selection writes no file, leaves every file as it was, and reports
\* exists or skip for both artifacts of every day the first run created.
C1_Idempotent ==
  SecondNormalRun =>
    /\ writes = {}
    /\ files = startFiles
    /\ \A da \in Reported(prev.results, "created") :
         /\ da[1] \in DOMAIN results
         /\ results[da[1]].dataset \in {"exists", "skip"}
         /\ results[da[1]].stats \in {"exists", "skip"}

C1_Witness ==
  /\ SecondNormalRun
  /\ Cardinality(Reported(prev.results, "created")) >= 2
  /\ \E d \in DOMAIN prev.results : prev.results[d].error # "none"

\* C3: a completed dry run leaves the filesystem as it found it, writes and
\* fetches nothing, and reports would_create for each missing artifact and
\* exists for each present one on every day that misses an artifact.
C3_DryRunNoEffect ==
  (Completed /\ dry_run) =>
    /\ files = startFiles
    /\ dirExists = startDir
    /\ writes = {}
    /\ fetched = {}
    /\ \A da \in DaysOf(mapping) \X Artifacts :
         (need_ds(da[1]) \/ need_st(da[1])) =>
           StatusOf(results, da[1], da[2]) =
             IF exists(PathOf(da[1], da[2])) THEN "exists" ELSE "would_create"

StructuralFailure == {"invalid_json", "no_key", "not_iterable", "no_get"}

\* the process ended by itself in a normal run over a non-empty selection
NormalRunEnded == pc = "exit" /\ exitCode # "killed" /\ ~dry_run /\ mapping # <<>>

\* C4: in a normal run where every fetch succeeds, a day whose content fails
\* structural parsing gets an error outcome and no artifact, every other
\* day is archived, and the exit code is 0.
C4_ParseFailureIsolated ==
  (NormalRunEnded /\ \A s \in fetched : content[s] # "git_failed") =>
    /\ exitCode = "0"
    /\ \A i \in DOMAIN mapping :
         /\ mapping[i][1] \in DOMAIN results
         /\ IF mapping[i][2] \in fetched /\ content[mapping[i][2]] \in StructuralFailure
              THEN /\ results[mapping[i][1]].error # "none"
                   /\ \A a \in Artifacts :
                        files[PathOf(mapping[i][1], a)] = startFiles[PathOf(mapping[i][1], a)]
              ELSE /\ results[mapping[i][1]].error = "none"
                   /\ \A a \in Artifacts : exists(PathOf(mapping[i][1], a))

GitFailedAt(i) ==
  /\ i \in DOMAIN mapping
  /\ mapping[i][2] \in fetched
  /\ content[mapping[i][2]] = "git_failed"

\* C5: when git fails to show the revision of one day in a normal run, the
\* error is recorded in that day's outcome, the run goes on with the later
\* days, which are archived, and the exit code is 0.
C5_FetchFailureIsolated ==
  (NormalRunEnded /\ \E i \in DOMAIN mapping : GitFailedAt(i)) =>
    /\ exitCode = "0"
    /\ \A i \in DOMAIN mapping :
         /\ mapping[i][1] \in DOMAIN results
         /\ IF GitFailedAt(i) THEN results[mapping[i][1]].error # "none"
            ELSE results[mapping[i][1]].error = "none" =>
                   \A a \in Artifacts : exists(PathOf(mapping[i][1], a))

\* a day of the current run whose revision was fetched and parsed
Archived(d) ==
  /\ d \in DOMAIN results
  /\ results[d].error = "none"
  /\ results[d].note = "none"

Complete(d, a) ==
  \E i \in DOMAIN mapping :
    /\ mapping[i][1] = d
    /\ files[PathOf(d, a)] =
         IF a = "dataset" THEN DatasetDoc(mapping[i][2]) ELSE StatsDoc(d, mapping[i][2])

\* C6: no run changes a file that exists; in a normal run, a day whose
\* revision was fetched and parsed reports exists for each artifact that was
\* there, untouched, and created for each missing one, written in full.
C6_NoOverwrite ==
  /\ \A p \in Paths : startFiles[p] # Absent => files[p] = startFiles[p]
  /\ ~dry_run =>
       \A da \in (DOMAIN results) \X Artifacts :
         Archived(da[1]) =>
           IF startFiles[PathOf(da[1], da[2])] # Absent
             THEN /\ StatusOf(results, da[1], da[2]) = "exists"
                  /\ PathOf(da[1], da[2]) \notin writes
             ELSE /\ StatusOf(results, da[1], da[2]) = "created"
                  /\ PathOf(da[1], da[2]) \in writes
                  /\ Complete(da[1], da[2])

\* content present, stats missing: {dataset: exists, stats: created}
C6_Witness ==
  /\ ~dry_run
  /\ \E d \in DOMAIN results :
       /\ Archived(d)
       /\ startFiles[ds_path(d)] = Old /\ startFiles[st_path(d)] = Absent
       /\ results[d].dataset = "exists" /\ results[d].stats = "created"
       /\ files[ds_path(d)] = Old /\ Complete(d, "stats")

\* C7: compute_statistics returns the number of records, the sums of the
\* download and like counts (0 when missing) and the number of records with
\* more than one distinct language tag.
DistinctTags(d) == {Get(d.languages, <<>>)[i] : i \in DOMAIN Get(d.languages, <<>>)}

C7_StatisticsCorrect ==
  statPc = "return" =>
    /\ stats.total_datasets = Len(datasets)
    /\ stats.total_downloads = SumDownloads(datasets)
    /\ stats.total_likes = SumLikes(datasets)
    /\ stats.multilingual_count =
         Cardinality({i \in DOMAIN datasets : Cardinality(DistinctTags(datasets[i])) > 1})

\* C8: a killed run leaves no truncated archive file, and a completed normal
\* run after it leaves both artifacts of every day without error complete.
C8_SafeResume ==
  /\ exitCode = "killed" => \A p \in Paths : files[p] # Partial
  /\ (Completed /\ ~dry_run /\ prev.ran /\ prev.exitCode = "killed"
        /\ prev.mapping = mapping) =>
       \A da \in (DOMAIN results) \X Artifacts :
         results[da[1]].error = "none" =>
           files[PathOf(da[1], da[2])] \notin {Absent, Partial}

\* C9: processing a day whose two artifacts both exist records
\* {dataset: skip, stats: skip, note: present} without an error, fetches
\* nothing and writes nothing, in a dry run and in a normal run.
C9_SkipWhenPresent ==
  [][(/\ pc = "day" /\ idx <= Len(mapping)
      /\ exists(ds_path(CurDate)) /\ exists(st_path(CurDate))
      /\ pc' # "exit")
     => /\ results' = Put(results, CurDate,
                          [date |-> CurDate, commit |-> CurSha, dataset |-> "skip",
                           stats |-> "skip", note |-> "present", error |-> "none"])
        /\ files' = files /\ dirExists' = dirExists
        /\ fetched' = fetched /\ content' = content /\ writes' = writes
        /\ pc' = "day" /\ idx' = idx + 1]_vars

\* a normal run that skipped a day as present and archived another day
C9_Witness ==
  /\ Completed /\ ~dry_run
  /\ Cardinality(fetched) = 1 /\ Cardinality(writes) = 2
  /\ \E d \in DOMAIN results :
       /\ results[d] = [date |-> d, commit |-> results[d].commit, dataset |-> "skip",
                        stats |-> "skip", note |-> "present", error |-> "none"]
       /\ results[d].commit \notin fetched
       /\ d \notin {p.day : p \in writes}

\* a completed normal run without error right after a completed dry run
\* that started from the same archive files with the same selection
DryThenNormal ==
  /\ Completed /\ ~dry_run /\ NoError(results)
  /\ prev.ran /\ prev.exitCode = "0" /\ prev.dry
  /\ prev.mapping = mapping
  /\ sameStart

\* C10: what a dry run reports as would_create is what the normal run from
\* the same state reports as created, and both skip the same days as present.
C10_DryRunPredicts ==
  DryThenNormal =>
    /\ Reported(prev.results, "would_create") = Reported(results, "created")
    /\ Present(prev.results) = Present(results)

C10_Witness ==
  /\ DryThenNormal
  /\ Cardinality(Reported(results, "created")) = 3
  /\ Present(results) = {}
  /\ Len(mapping) = 2

====
